---- MODULE Spec2Model ----
(***************************************************************************)
(* A model of the signaler summarisation pipeline (src/AI_summarize.py):   *)
(* the Markdown segmenter, the tag extraction, process_one and the         *)
(* top-level loop of main() with its "[ds]" resumability marker.           *)
(*                                                                         *)
(* A text is a sequence of characters; a character is a one-character      *)
(* string, and the two non-ASCII delimiters of the tag regex are written   *)
(* by their code points ("U+FF0C", "U+3001").                              *)
(***************************************************************************)
EXTENDS Naturals, Integers, Sequences, FiniteSets, TLC

VARIABLES
    CHUNK_TOKENS,     \* module global, AI_summarize.py:42
    CHUNK_OVERLAP,    \* module global, AI_summarize.py:43
    enc,              \* TRUE iff "import tiktoken" succeeded (_enc is not None)
    pc,               \* position of the program
    docs,             \* the text of each source document, by base name
    fs,               \* names of the Markdown files under SRC_DIR
    dst,              \* the paths written under DST_DIR
    written,          \* the text of the last write_text, until the rename is over
    run,              \* number of invocations of main() so far
    md_files,         \* main: the scan list
    idx,              \* main: position of the for loop in md_files (0: before)
    total,            \* main: len(md_files)
    success,          \* main: counter
    fail,             \* main: counter
    front,            \* process_one: the front-matter value
    body,             \* process_one: the Markdown body
    segs,             \* process_one: the chunk list _split_markdown returned
    translated_segs,  \* process_one: translations gathered so far
    lvl1,             \* process_one: level-1 summaries gathered so far
    cn_body,          \* process_one: the translated body
    summary,          \* process_one: the final summary
    raw_resp,         \* the generation service's raw answer to the tag request
    req,              \* ask_llm: the request waiting for its response
    exc,              \* main: the exception the handler caught last (e)
    log,              \* history: calls and returns of ask_llm in process_one
    attempted,        \* history: documents process_one was called on, this run
    done_now,         \* history: documents processed and renamed, this run
    done_before,      \* history: documents processed and renamed, earlier runs
    failed_now,       \* history: documents that failed in process_one, this run
    failed_before     \* history: documents that failed in process_one, last run

cfgVars == <<CHUNK_TOKENS, CHUNK_OVERLAP, enc>>
mainVars == <<docs, fs, dst, written, run, md_files, idx, total, success, fail>>
procVars == <<front, body, segs, translated_segs, cn_body, lvl1, summary, raw_resp,
              req, log>>
histVars == <<exc, attempted, done_now, done_before, failed_now, failed_before>>
vars == <<cfgVars, pc, mainVars, procVars, histVars>>

-----------------------------------------------------------------------------
(* Bounds of the model *)

MaxFrags == 3
MaxResp == 4
MaxRuns == 2

-----------------------------------------------------------------------------
(* Characters *)

NL == "\n"
CR == "\r"
FF == "\f"
SP == " "
HASH == "#"
COMMA == ","
FWCOMMA == "U+FF0C"
IDCOMMA == "U+3001"

\* Python's str.isspace() / regex \s, restricted to the characters modelled
IsSpace(c) == c \in {SP, NL, CR, FF}

\* ''.join(parts)
RECURSIVE Join(_)
Join(parts) ==
    IF parts = <<>> THEN <<>> ELSE Head(parts) \o Join(Tail(parts))

\* txt[i:j] with Python's clamping, 0-based half-open
Slice(txt, i, j) ==
    LET hi == IF j > Len(txt) THEN Len(txt) ELSE j
    IN IF i >= hi THEN <<>> ELSE SubSeq(txt, i + 1, hi)

\* range(0, n, step) for step # 0, as the ascending sequence of its values
Range0(n, step) ==
    IF step < 0 \/ n <= 0 THEN <<>>
    ELSE [k \in 1..((n + step - 1) \div step) |-> (k - 1) * step]

-----------------------------------------------------------------------------
(* Token estimator *)

\* _enc.encode: tiktoken's vocabulary is outside the repository; it is
\* modelled as a greedy left-to-right tokenizer whose vocabulary holds every
\* single character and the digraph "ab".  A token is the text it stands for.
RECURSIVE Encode(_)
Encode(txt) ==
    IF txt = <<>> THEN <<>>
    ELSE IF Len(txt) >= 2 /\ txt[1] = "a" /\ txt[2] = "b"
         THEN <<SubSeq(txt, 1, 2)>> \o Encode(SubSeq(txt, 3, Len(txt)))
         ELSE <<SubSeq(txt, 1, 1)>> \o Encode(Tail(txt))

\* _enc.decode
Decode(toks) == Join(toks)

TokenLen(txt) == IF enc THEN Len(Encode(txt)) ELSE Len(txt)

-----------------------------------------------------------------------------
(* Markdown segmenter *)

\* str.splitlines(keepends=True): a line ends after "\n", "\r", "\r\n" or
\* a form feed
RECURSIVE SplitLinesFrom(_, _, _)
SplitLinesFrom(md, i, cur) ==
    IF i > Len(md) THEN (IF cur = <<>> THEN <<>> ELSE <<cur>>)
    ELSE IF md[i] = CR /\ i < Len(md) /\ md[i + 1] = NL
         THEN <<cur \o <<CR, NL>> >> \o SplitLinesFrom(md, i + 2, <<>>)
    ELSE IF md[i] \in {NL, CR, FF}
         THEN <<Append(cur, md[i])>> \o SplitLinesFrom(md, i + 1, <<>>)
    ELSE SplitLinesFrom(md, i + 1, Append(cur, md[i]))

SplitLines(md) == SplitLinesFrom(md, 1, <<>>)

\* the number of leading "#" of a line
RECURSIVE LeadingHashes(_)
LeadingHashes(ln) ==
    IF ln # <<>> /\ Head(ln) = HASH THEN 1 + LeadingHashes(Tail(ln)) ELSE 0

\* _HDR_RE.match(ln): one to six "#" followed by a whitespace character
HdrMatch(ln) ==
    LET k == LeadingHashes(ln)
    IN k >= 1 /\ k <= 6 /\ Len(ln) > k /\ IsSpace(ln[k + 1])

\* SectionLoop with the "and buf" test dropped: a heading always closes the
\* buffer, also an empty one
RECURSIVE SectionLoopAlwaysClose(_, _, _)
SectionLoopAlwaysClose(lines, sections, buf) ==
    IF lines = <<>>
    THEN (IF buf # <<>> THEN Append(sections, Join(buf)) ELSE sections)
    ELSE IF HdrMatch(Head(lines))
         THEN SectionLoopAlwaysClose(Tail(lines), Append(sections, Join(buf)),
                                     <<Head(lines)>>)
         ELSE SectionLoopAlwaysClose(Tail(lines), sections, Append(buf, Head(lines)))

\* the first loop of _split_markdown: lines gathered into sections
RECURSIVE SectionLoop(_, _, _)
SectionLoop(lines, sections, buf) ==
    IF lines = <<>>
    THEN (IF buf # <<>> THEN Append(sections, Join(buf)) ELSE sections)
    ELSE IF HdrMatch(Head(lines)) /\ buf # <<>>
         THEN SectionLoop(Tail(lines), Append(sections, Join(buf)), <<Head(lines)>>)
         ELSE SectionLoop(Tail(lines), sections, Append(buf, Head(lines)))

Sections(md) == SectionLoop(SplitLines(md), <<>>, <<>>)

\* the step of the slicing loop
Stride == CHUNK_TOKENS - CHUNK_OVERLAP
Step == IF enc THEN Stride ELSE Stride * 4

\* the windows of one over-budget section
Windows(seg) ==
    IF enc
    THEN LET toks == Encode(seg)
             starts == Range0(Len(toks), Step)
         IN [k \in 1..Len(starts) |->
                Decode(Slice(toks, starts[k], starts[k] + CHUNK_TOKENS))]
    ELSE LET starts == Range0(Len(seg), Step)
         IN [k \in 1..Len(starts) |-> Slice(seg, starts[k], starts[k] + Step)]

OverBudget(seg) == TokenLen(seg) > CHUNK_TOKENS

\* range() raises ValueError on a zero step
SliceRaises(seg) == OverBudget(seg) /\ Step = 0

RECURSIVE ChunkLoop(_)
ChunkLoop(sections) ==
    IF sections = <<>> THEN <<>>
    ELSE (IF OverBudget(Head(sections))
          THEN Windows(Head(sections))
          ELSE <<Head(sections)>>) \o ChunkLoop(Tail(sections))

\* _split_markdown(md): the chunk list, or a raised ValueError
SplitMarkdown(md) ==
    LET sections == Sections(md)
    IN IF \E k \in 1..Len(sections) : SliceRaises(sections[k])
       THEN [raised |-> TRUE, out |-> <<>>]
       ELSE [raised |-> FALSE, out |-> ChunkLoop(sections)]

-----------------------------------------------------------------------------
(* Values *)

\* a front-matter value: a mapping (what yaml.safe_load gave, or {}) or a
\* YAML scalar
Dict(m) == [isdict |-> TRUE, m |-> m]
EmptyDict == Dict(<<>>)
NoReq == [kind |-> "none"]
NoText == [kind |-> "none"]

-----------------------------------------------------------------------------
(* Tag extraction *)

\* str.strip()
RECURSIVE LStrip(_)
LStrip(txt) ==
    IF txt # <<>> /\ IsSpace(Head(txt)) THEN LStrip(Tail(txt)) ELSE txt

RECURSIVE RStrip(_)
RStrip(txt) ==
    IF txt # <<>> /\ IsSpace(txt[Len(txt)])
    THEN RStrip(SubSeq(txt, 1, Len(txt) - 1)) ELSE txt

Strip(txt) == RStrip(LStrip(txt))

\* the character class of the tag regex, [,\uff0c\u3001\n]
Delims == {COMMA, FWCOMMA, IDCOMMA, NL}

\* re.split(r"[,\uff0c\u3001\n]+", txt): the pieces between maximal runs of
\* delimiters, an empty piece before a leading and after a trailing run
RECURSIVE ReSplitFrom(_, _, _)
ReSplitFrom(txt, i, cur) ==
    IF i > Len(txt) THEN <<cur>>
    ELSE IF txt[i] \in Delims
         THEN (IF i > 1 /\ txt[i - 1] \in Delims
               THEN ReSplitFrom(txt, i + 1, cur)
               ELSE <<cur>> \o ReSplitFrom(txt, i + 1, <<>>))
         ELSE ReSplitFrom(txt, i + 1, Append(cur, txt[i]))

ReSplit(txt) == ReSplitFrom(txt, 1, <<>>)

\* [kw.strip() for kw in pieces if kw]: the filter tests the piece before
\* it is trimmed
RECURSIVE TrimKeepBlank(_)
TrimKeepBlank(pieces) ==
    IF pieces = <<>> THEN <<>>
    ELSE (IF Head(pieces) # <<>> THEN <<Strip(Head(pieces))>> ELSE <<>>)
         \o TrimKeepBlank(Tail(pieces))

\* [kw.strip() for kw in pieces if kw.strip()]
RECURSIVE TrimNonEmpty(_)
TrimNonEmpty(pieces) ==
    IF pieces = <<>> THEN <<>>
    ELSE (IF Strip(Head(pieces)) # <<>> THEN <<Strip(Head(pieces))>> ELSE <<>>)
         \o TrimNonEmpty(Tail(pieces))

\* the tags with the filter applied to the untrimmed piece
ExtractTagsBlankKept(resp) == TrimKeepBlank(ReSplit(resp))

\* the tags computed from the tag response (line 159)
ExtractTags(resp) == TrimNonEmpty(ReSplit(resp))

\* "if tags: front['tags'] = tags" on a mapping
SetTags(f, resp) ==
    IF ExtractTags(resp) # <<>>
    THEN Dict(("tags" :> ExtractTags(resp)) @@ f.m)
    ELSE f

-----------------------------------------------------------------------------
(* Front matter *)

\* A "key: value" line of a YAML block is one character of the text.
TitleLine == "title: \"T\""
DateLine == "date: \"2023-05-01\""
BadDateLine == "date: \"not-a-date\""
LinkLine == "link: \"L\""
TagsLine == "tags: [o]"
BadLine == "x: ["
DASH == "-"

\* the entry a well-formed line stands for
YamlKey(c) ==
    CASE c = TitleLine -> "title"
      [] c \in {DateLine, BadDateLine} -> "date"
      [] c = LinkLine -> "link"
      [] c = TagsLine -> "tags"

YamlValue(c) ==
    CASE c = TitleLine -> <<"T">>
      [] c = DateLine -> "2023-05-01"
      [] c = BadDateLine -> "not-a-date"
      [] c = LinkLine -> "L"
      [] c = TagsLine -> << <<"o">> >>

EntryLines == {TitleLine, DateLine, BadDateLine, LinkLine, TagsLine}

\* yaml.safe_load is outside the repository. What follows is what it does
\* on the characters of this model: the six lines above, letters, space,
\* "#", "-", the three commas, the line breaks and the form feed.

\* the lines of a block: the parser breaks lines at "\n" and "\r"
RECURSIVE YamlLinesFrom(_, _, _)
YamlLinesFrom(fm, i, cur) ==
    IF i > Len(fm) THEN <<cur>>
    ELSE IF fm[i] \in {NL, CR} THEN <<cur>> \o YamlLinesFrom(fm, i + 1, <<>>)
    ELSE YamlLinesFrom(fm, i + 1, Append(cur, fm[i]))

\* where the comment of a line starts, Len(ln) + 1 if it has none: a "#"
\* that opens the line, follows a space or follows a quoted or bracketed
\* value
RECURSIVE CommentAt(_, _)
CommentAt(ln, i) ==
    IF i > Len(ln) THEN i
    ELSE IF /\ ln[i] = HASH
            /\ (i = 1 \/ ln[i - 1] = SP \/ ln[i - 1] \in EntryLines \cup {BadLine})
         THEN i
    ELSE CommentAt(ln, i + 1)

RECURSIVE RStripSP(_)
RStripSP(ln) ==
    IF ln # <<>> /\ ln[Len(ln)] = SP
    THEN RStripSP(SubSeq(ln, 1, Len(ln) - 1))
    ELSE ln

\* a line without its comment and trailing spaces, and whether it had a
\* comment
YamlLineCut(ln, c) ==
    [text |-> RStripSP(SubSeq(ln, 1, c - 1)), com |-> c <= Len(ln)]

YamlLine(ln) == YamlLineCut(ln, CommentAt(ln, 1))

\* the column (0-based) of the first character that is no space, from col on
RECURSIVE SkipSP(_, _)
SkipSP(ln, col) ==
    IF col < Len(ln) /\ ln[col + 1] = SP THEN SkipSP(ln, col + 1) ELSE col

Indent(ln) == SkipSP(ln, 0)

\* "---" in column 0 followed by a space or the end of the line: a document
\* start
IsMarker(ln) ==
    /\ Len(ln) >= 3
    /\ SubSeq(ln, 1, 3) = <<DASH, DASH, DASH>>
    /\ (Len(ln) = 3 \/ ln[4] = SP)

\* "-" followed by a space or the end of the line: a sequence entry
IsEntryAt(ln, col) ==
    ln[col + 1] = DASH /\ (col + 1 = Len(ln) \/ ln[col + 2] = SP)

\* the scanner: its tokens, the stack of indentation levels, the current
\* level, and whether it has raised
Tok(t) == [t |-> t, pre |-> <<>>, e |-> ""]
ScanStart == [toks |-> <<>>, indents |-> <<>>, indent |-> -1, err |-> FALSE]
Emit(st, tok) == [st EXCEPT !.toks = Append(@, tok)]
Failed(st) == [st EXCEPT !.err = TRUE]

\* unwind_indent(col): the block collections indented deeper than col end
RECURSIVE Unwind(_, _)
Unwind(st, col) ==
    IF st.indent > col
    THEN Unwind([Emit(st, Tok("BLOCK_END")) EXCEPT
                    !.indent = st.indents[Len(st.indents)],
                    !.indents = SubSeq(st.indents, 1, Len(st.indents) - 1)],
                col)
    ELSE st

\* add_indent(col): a block collection starts if col is deeper than the
\* current level
Open(st, col, start) ==
    IF st.indent < col
    THEN Emit([st EXCEPT !.indents = Append(@, st.indent), !.indent = col],
              Tok(start))
    ELSE st

\* the "- " indicators a line starts with; ask: a simple key may start here
RECURSIVE ScanEntries(_, _, _, _)
ScanEntries(ln, col, st, ask) ==
    IF col < Len(ln) /\ IsEntryAt(ln, col)
    THEN IF ~ask
         THEN [st |-> Failed(st), col |-> col, ask |-> ask]
         ELSE ScanEntries(ln, SkipSP(ln, col + 1),
                          Emit(Open(Unwind(st, col), col, "SEQ_START"),
                               Tok("ENTRY")),
                          TRUE)
    ELSE [st |-> st, col |-> col, ask |-> ask]

\* the line after a plain scalar that goes on from line j: the scalar takes
\* the following lines whole while they are indented to lim at least, and
\* ends at a comment and at a document start; an entry line inside it makes
\* a key of several lines, which the scanner refuses
RECURSIVE PlainEnd(_, _, _)
PlainEnd(L, j, lim) ==
    IF j > Len(L) THEN [next |-> j, err |-> FALSE]
    ELSE LET ln == L[j].text
         IN IF Indent(ln) = Len(ln)
            THEN (IF L[j].com THEN [next |-> j, err |-> FALSE]
                  ELSE PlainEnd(L, j + 1, lim))
            ELSE IF IsMarker(ln) \/ Indent(ln) < lim
                 THEN [next |-> j, err |-> FALSE]
            ELSE IF \E k \in 1..Len(ln) : ln[k] \in EntryLines
                 THEN [next |-> j, err |-> TRUE]
            ELSE IF L[j].com THEN [next |-> j + 1, err |-> FALSE]
            ELSE PlainEnd(L, j + 1, lim)

\* a plain scalar from line i on: one token, or the scanner's refusal
ScanPlain(st, i, end) ==
    IF end.err
    THEN [st |-> Failed(st), next |-> i]
    ELSE [st |-> Emit(st, Tok("SCALAR")), next |-> end.next]

\* what follows the indicators of line i, from column col: a key with its
\* value (the text before an entry line is part of its key), or a plain
\* scalar; a scalar in the column of the collection it is in must be a key
ScanContentAt(L, i, col, st, ask) ==
    LET rest == SubSeq(L[i].text, col + 1, Len(L[i].text))
        eps == { k \in 1..Len(rest) : rest[k] \in EntryLines }
        k == CHOOSE x \in eps : \A y \in eps : x <= y
    IN IF rest[1] = COMMA THEN [st |-> Failed(st), next |-> i]
       ELSE IF eps # {}
            THEN IF k < Len(rest) \/ ~ask
                 THEN [st |-> Failed(st), next |-> i]
                 ELSE [st |-> Emit(Open(st, col, "MAP_START"),
                                   [t |-> "PAIR", pre |-> SubSeq(rest, 1, k - 1),
                                    e |-> rest[k]]),
                       next |-> i + 1]
       ELSE IF st.indent = col /\ ask THEN [st |-> Failed(st), next |-> i]
       ELSE IF L[i].com
            THEN ScanPlain(st, i, [next |-> i + 1, err |-> FALSE])
       ELSE ScanPlain(st, i, PlainEnd(L, i + 1, st.indent + 1))

ScanContent(L, i, col, st, ask) == ScanContentAt(L, i, col, Unwind(st, col), ask)

\* the lines of a block, one after the other
RECURSIVE ScanLines(_, _, _)
ScanNext(L, cont) == ScanLines(L, cont.next, cont.st)

ScanAfterEntries(L, i, ents) ==
    IF ents.st.err THEN ents.st
    ELSE IF ents.col = Len(L[i].text) THEN ScanLines(L, i + 1, ents.st)
    ELSE ScanNext(L, ScanContent(L, i, ents.col, ents.st, ents.ask))

ScanLines(L, i, st) ==
    IF st.err THEN st
    ELSE IF i > Len(L) THEN Emit(Unwind(st, -1), Tok("END"))
    ELSE IF Indent(L[i].text) = Len(L[i].text) THEN ScanLines(L, i + 1, st)
    ELSE IF IsMarker(L[i].text)
         THEN ScanAfterEntries(L, i,
                  ScanEntries(L[i].text, SkipSP(L[i].text, 3),
                              Emit(Unwind(st, -1), Tok("DOC")), FALSE))
    ELSE ScanAfterEntries(L, i,
             ScanEntries(L[i].text, Indent(L[i].text), st, TRUE))

\* the tokens of a block; the reader refuses a form feed anywhere, and the
\* bracket of the malformed line is never closed
YamlLines(lines) == [i \in 1..Len(lines) |-> YamlLine(lines[i])]

YamlScanLines(fm, L) ==
    IF \/ \E i \in 1..Len(fm) : fm[i] = FF
       \/ \E i \in 1..Len(L) : \E k \in 1..Len(L[i].text) : L[i].text[k] = BadLine
    THEN Failed(ScanStart)
    ELSE ScanLines(L, 1, ScanStart)

YamlScan(fm) == YamlScanLines(fm, YamlLines(YamlLinesFrom(fm, 1, <<>>)))

\* the characters of a key as one string
RECURSIVE KeyText(_)
KeyText(pre) == IF pre = <<>> THEN "" ELSE Head(pre) \o KeyText(Tail(pre))

\* the parser: a node is a plain scalar, a block sequence or a block
\* mapping; a repeated key keeps its last value
NoNode == [err |-> TRUE, kind |-> "error", m |-> <<>>, p |-> 0]

RECURSIVE YamlPairs(_, _, _)
YamlPairs(toks, p, m) ==
    IF toks[p].t = "PAIR"
    THEN YamlPairs(toks, p + 1,
                   ((KeyText(toks[p].pre) \o YamlKey(toks[p].e))
                        :> YamlValue(toks[p].e)) @@ m)
    ELSE IF toks[p].t = "BLOCK_END"
         THEN [err |-> FALSE, kind |-> "map", m |-> m, p |-> p + 1]
    ELSE NoNode

RECURSIVE YamlNode(_, _)
RECURSIVE YamlSeqItems(_, _)
YamlNode(toks, p) ==
    CASE toks[p].t = "SCALAR" ->
            [err |-> FALSE, kind |-> "scalar", m |-> <<>>, p |-> p + 1]
      [] toks[p].t = "SEQ_START" -> YamlSeqItems(toks, p + 1)
      [] toks[p].t = "MAP_START" -> YamlPairs(toks, p + 1, <<>>)
      [] OTHER -> NoNode

YamlSeqNext(toks, r) == IF r.err THEN r ELSE YamlSeqItems(toks, r.p)

YamlSeqItems(toks, p) ==
    IF toks[p].t = "ENTRY"
    THEN IF toks[p + 1].t \in {"ENTRY", "BLOCK_END"}
         THEN YamlSeqItems(toks, p + 1)
         ELSE YamlSeqNext(toks, YamlNode(toks, p + 1))
    ELSE IF toks[p].t = "BLOCK_END"
         THEN [err |-> FALSE, kind |-> "scalar", m |-> <<>>, p |-> p + 1]
    ELSE NoNode

\* the one document of a block, after its "---" if it has one: nothing, or
\* a node
YamlDocument(toks, p) ==
    IF toks[p].t \in {"DOC", "END"}
    THEN [err |-> FALSE, kind |-> "none", m |-> <<>>, p |-> p]
    ELSE YamlNode(toks, p)

\* the value loaded: the stream has to end after the document
YamlResult(toks, r) ==
    IF r.err \/ toks[r.p].t # "END" THEN [kind |-> "error"]
    ELSE IF r.kind = "map" THEN [kind |-> "map", m |-> r.m]
    ELSE [kind |-> r.kind]

YamlParse(sc) ==
    IF sc.err THEN [kind |-> "error"]
    ELSE YamlResult(sc.toks,
                    YamlDocument(sc.toks, IF sc.toks[1].t = "DOC" THEN 2 ELSE 1))

\* yaml.safe_load(fm): the parser's exception, None for a block without a
\* node, a mapping, or a value that is no mapping (a string or a list)
YamlLoad(fm) == YamlParse(YamlScan(fm))

\* text.startswith(prefix)
StartsWith(text, prefix) ==
    Len(text) >= Len(prefix) /\ SubSeq(text, 1, Len(prefix)) = prefix

\* text.find(pat, from): the least 0-based index >= from, or -1
Find(text, pat, from) ==
    LET hits == { i \in from..(Len(text) - Len(pat)) :
                    SubSeq(text, i + 1, i + Len(pat)) = pat }
    IN IF hits = {} THEN -1 ELSE CHOOSE i \in hits : \A j \in hits : i <= j

\* text.lstrip('\n')
RECURSIVE LStripNL(_)
LStripNL(text) ==
    IF text # <<>> /\ Head(text) = NL THEN LStripNL(Tail(text)) ELSE text

\* a front-matter value that is no mapping: a string or a list
Scalar == [isdict |-> FALSE, m |-> <<>>]

\* lines 67-68: the value loaded and the body, or the parser's exception
FrontAndBody(loaded, rest) ==
    CASE loaded.kind = "error" ->
            [raised |-> TRUE, front |-> EmptyDict, body |-> <<>>]
      [] loaded.kind = "none" ->
            [raised |-> FALSE, front |-> EmptyDict, body |-> rest]
      [] loaded.kind = "map" ->
            [raised |-> FALSE, front |-> Dict(loaded.m), body |-> rest]
      [] loaded.kind = "scalar" ->
            [raised |-> FALSE, front |-> Scalar, body |-> rest]

\* split_front_matter(text): the front-matter value and the body, or the
\* parser's exception
SplitFrontMatterAt(text, end) ==
    IF StartsWith(text, <<DASH, DASH, DASH, NL>>) /\ end # -1
    THEN FrontAndBody(YamlLoad(Slice(text, 4, end)),
                      LStripNL(Slice(text, end + 4, Len(text))))
    ELSE [raised |-> FALSE, front |-> EmptyDict, body |-> text]

SplitFrontMatter(text) ==
    SplitFrontMatterAt(text, Find(text, <<NL, DASH, DASH, DASH>>, 4))

\* "key in front": a key of the mapping; on a string a substring test and
\* on a list a membership test, which fail for the texts modelled here
HasKey(f, key) == f.isdict /\ key \in DOMAIN f.m

\* front.pop(key)
Without(m, key) == [k \in DOMAIN m \ {key} |-> m[k]]

\* lines 123-133: fromisoformat, then the two strptime formats, else the
\* raw string
ParseDate(raw_date) ==
    IF raw_date = "2023-05-01" THEN "datetime(2023, 5, 1, 0, 0)" ELSE raw_date

\* lines 120-134: date renamed to pubDatetime
DateStep(f) ==
    IF HasKey(f, "date")
    THEN Dict(("pubDatetime" :> ParseDate(f.m["date"])) @@ Without(f.m, "date"))
    ELSE f

\* lines 171-175: link popped, compose_markdown's four parts
Compose(f, summ, cn) ==
    [kind |-> "text",
     front |-> Without(f.m, "link"),
     link |-> IF "link" \in DOMAIN f.m THEN f.m["link"] ELSE "None",
     summary |-> summ,
     body |-> cn]

-----------------------------------------------------------------------------
(* Inputs of the segmenter *)

Fragments ==
    { <<HASH, SP>>,
      <<"a", "b", NL>>,
      <<"a">>,
      <<NL>>,
      <<FF>>,
      <<HASH>>,
      <<HASH, HASH, HASH, HASH, HASH, HASH>>,
      <<"a", "b", "b", "a", "b">> }

RECURSIVE FragSeqs(_)
FragSeqs(n) ==
    IF n = 0 THEN { <<>> }
    ELSE FragSeqs(n - 1)
         \cup { Append(s, f) : s \in { t \in FragSeqs(n - 1) : Len(t) = n - 1 },
                               f \in Fragments }

Bodies == { Join(s) : s \in FragSeqs(MaxFrags) }

\* the shipped configuration and scaled-down ones, two of them with an
\* overlap that is not below the budget
DefaultConfig == [tokens |-> 8000, overlap |-> 200]
Configs ==
    { DefaultConfig,
      [tokens |-> 2, overlap |-> 1],
      [tokens |-> 3, overlap |-> 1],
      [tokens |-> 2, overlap |-> 2],
      [tokens |-> 2, overlap |-> 3] }

\* main() not running and no document in hand
MainIdle ==
    /\ docs = <<>>
    /\ fs = {}
    /\ dst = {}
    /\ written = NoText
    /\ run = 0
    /\ md_files = <<>>
    /\ idx = 0
    /\ total = 0
    /\ success = 0
    /\ fail = 0
    /\ exc = "none"
    /\ attempted = <<>>
    /\ done_now = {}
    /\ done_before = {}
    /\ failed_now = {}
    /\ failed_before = {}

ProcIdle ==
    /\ front = EmptyDict
    /\ body = <<>>
    /\ segs = <<>>
    /\ translated_segs = <<>>
    /\ cn_body = <<>>
    /\ lvl1 = <<>>
    /\ summary = <<>>
    /\ raw_resp = <<>>
    /\ req = NoReq
    /\ log = <<>>

ConfigInit ==
    /\ \E c \in Configs : CHUNK_TOKENS = c.tokens /\ CHUNK_OVERLAP = c.overlap
    /\ enc \in BOOLEAN

SplitInit ==
    /\ ConfigInit
    /\ MainIdle
    /\ front = EmptyDict
    /\ body \in Bodies
    /\ segs = <<>>
    /\ translated_segs = <<>>
    /\ cn_body = <<>>
    /\ lvl1 = <<>>
    /\ summary = <<>>
    /\ raw_resp = <<>>
    /\ req = NoReq
    /\ log = <<>>
    /\ pc = "split_call"

\* segs = _split_markdown(body)
SplitReturn ==
    /\ pc = "split_call"
    /\ ~SplitMarkdown(body).raised
    /\ segs' = SplitMarkdown(body).out
    /\ pc' = "split_done"
    /\ UNCHANGED <<cfgVars, mainVars, histVars>>
    /\ UNCHANGED <<front, body, translated_segs, cn_body, lvl1, summary, raw_resp, req, log>>

SplitRaise ==
    /\ pc = "split_call"
    /\ SplitMarkdown(body).raised
    /\ pc' = "split_raised"
    /\ UNCHANGED <<cfgVars, mainVars, procVars, histVars>>

SplitNext == SplitReturn \/ SplitRaise

SplitSpec == SplitInit /\ [][SplitNext]_vars

-----------------------------------------------------------------------------
(* The tag step of process_one on its own *)

TagAlphabet == {"a", SP, COMMA, FWCOMMA, IDCOMMA, NL}

RECURSIVE TextsUpTo(_, _)
TextsUpTo(alphabet, n) ==
    IF n = 0 THEN { <<>> }
    ELSE TextsUpTo(alphabet, n - 1)
         \cup { Append(t, c) : t \in { u \in TextsUpTo(alphabet, n - 1) : Len(u) = n - 1 },
                               c \in alphabet }

\* front matter as it may stand before the tag step
PriorFronts ==
    { EmptyDict,
      Dict([tags |-> << <<"o">> >>]),
      Dict([tags |-> << <<"o">>, <<>> >>, title |-> <<"t">>]) }

TagsInit ==
    /\ CHUNK_TOKENS = DefaultConfig.tokens
    /\ CHUNK_OVERLAP = DefaultConfig.overlap
    /\ enc = FALSE
    /\ MainIdle
    /\ front \in PriorFronts
    /\ body = <<>>
    /\ segs = <<>>
    /\ translated_segs = <<>>
    /\ cn_body = <<>>
    /\ lvl1 = <<>>
    /\ summary = <<>>
    /\ raw_resp \in TextsUpTo(TagAlphabet, MaxResp)
    /\ req = NoReq
    /\ log = <<>>
    /\ pc = "tags_call"

\* keywords_resp = ask_llm(...), which strips the answer; then lines 159-161
TagsStep ==
    /\ pc = "tags_call"
    /\ front' = SetTags(front, Strip(raw_resp))
    /\ pc' = "tags_done"
    /\ UNCHANGED <<cfgVars, mainVars, histVars>>
    /\ UNCHANGED <<body, segs, translated_segs, cn_body, lvl1, summary, raw_resp, req, log>>

TagsNext == TagsStep

TagsSpec == TagsInit /\ [][TagsNext]_vars

-----------------------------------------------------------------------------
(* main() and process_one *)

Bases == {"a.md", "b.md"}

\* a file name: the base name under a number of "[ds]" prefixes
Name(b, n) == [base |-> b, ds |-> n]

\* p.name.startswith("[ds]")
StartsWithDs(p) == p.ds > 0

\* line 183: the unmarked Markdown files under SRC_DIR
ScanSet(files) == { p \in files : ~StartsWithDs(p) }

\* md.with_name(f"[ds]{md.name}")
DsPath(p) == Name(p.base, p.ds + 1)

\* the orders in which rglob may list a set of files
Perms(S) ==
    { q \in [1..Cardinality(S) -> S] : \A x \in S : \E i \in DOMAIN q : q[i] = x }

FrontBlock(lines) == <<DASH, DASH, DASH, NL>> \o lines \o <<DASH, DASH, DASH, NL, NL>>

FullDoc ==
    FrontBlock(<<TitleLine, NL, DateLine, NL, TagsLine, NL, LinkLine, NL>>)
        \o <<"a", CR, NL, HASH, SP>>
MalformedDoc == FrontBlock(<<TitleLine, NL, BadLine, NL>>) \o <<"a">>
PlainDoc == <<"a", "b", "b", "a", "b">>
ScalarDoc == FrontBlock(<<"a", NL>>) \o <<HASH, SP, "a", CR>>
UnclosedDoc == <<DASH, DASH, DASH, NL, BadDateLine, NL>>

DocWorlds ==
    { [b \in Bases |-> IF b = "a.md" THEN FullDoc ELSE MalformedDoc],
      [b \in Bases |-> IF b = "a.md" THEN PlainDoc ELSE ScalarDoc],
      [b \in Bases |-> IF b = "a.md" THEN UnclosedDoc ELSE FullDoc] }

\* the configuration and the tokenizer mode main() runs under
MainSetups ==
    { [cfg |-> DefaultConfig, enc |-> FALSE],
      [cfg |-> [tokens |-> 2, overlap |-> 1], enc |-> TRUE],
      [cfg |-> [tokens |-> 2, overlap |-> 2], enc |-> FALSE] }

\* what the generation service may answer, by the kind of request
Responses(kind) ==
    CASE kind = "title" -> { <<"t">> }
      [] kind = "translate" -> { <<"x">>, <<"y", NL>> }
      [] kind = "lvl1" -> { <<"s">> }
      [] kind = "summary" -> { <<"S">> }
      [] kind = "keywords" -> { <<>>, <<"a", COMMA, SP, "a">> }
      [] kind = "description" -> { <<"d">> }

\* "\n".join(parts)
RECURSIVE JoinNL(_)
JoinNL(parts) ==
    IF parts = <<>> THEN <<>>
    ELSE IF Len(parts) = 1 THEN Head(parts)
    ELSE Head(parts) \o <<NL>> \o JoinNL(Tail(parts))

Init ==
    /\ \E c \in MainSetups :
        /\ CHUNK_TOKENS = c.cfg.tokens
        /\ CHUNK_OVERLAP = c.cfg.overlap
        /\ enc = c.enc
    /\ docs \in DocWorlds
    /\ fs \in SUBSET { Name(b, n) : b \in Bases, n \in {0, 1} }
    /\ dst = {}
    /\ written = NoText
    /\ run = 0
    /\ md_files = <<>>
    /\ idx = 0
    /\ total = 0
    /\ success = 0
    /\ fail = 0
    /\ exc = "none"
    /\ attempted = <<>>
    /\ done_now = {}
    /\ done_before = {}
    /\ failed_now = {}
    /\ failed_before = {}
    /\ ProcIdle
    /\ pc = "idle"

\* the document the loop is on
Md == md_files[idx]

\* what print() raises when standard output does not take the message: the
\* messages hold characters outside ASCII, the stream may be closed, and the
\* device behind it may be full
PrintErrors == {"UnicodeEncodeError", "BrokenPipeError", "OSError"}

\* the locals of process_one are gone once it has returned or raised
ProcReset ==
    /\ front' = EmptyDict
    /\ body' = <<>>
    /\ segs' = <<>>
    /\ translated_segs' = <<>>
    /\ cn_body' = <<>>
    /\ lvl1' = <<>>
    /\ summary' = <<>>
    /\ raw_resp' = <<>>
    /\ req' = NoReq
    /\ log' = <<>>

\* lines 196-199: an exception of the given kind leaves the try body and
\* "except Exception" catches it. The failure is counted, then reported with
\* print and traceback.print_exc; when the report raises, that exception
\* leaves main(). inproc: the exception was raised inside process_one
Raise(kind, inproc) ==
    /\ fail' = fail + 1
    /\ \E out \in {"reported"} \cup PrintErrors :
        /\ pc' = IF out = "reported" THEN "loop" ELSE "aborted"
        /\ exc' = IF out = "reported" THEN kind ELSE out
    /\ failed_now' = IF inproc THEN failed_now \cup {Md} ELSE failed_now
    /\ written' = NoText
    /\ ProcReset

\* what Raise leaves alone when process_one or the rename fails
RaiseFrame ==
    /\ UNCHANGED <<cfgVars, docs, fs, dst, run, md_files, idx, total, success>>
    /\ UNCHANGED <<attempted, done_now, done_before, failed_before>>

\* lines 180-185: main() is started; the scan list is fixed here
MainStart ==
    /\ pc \in {"idle", "done", "aborted"}
    /\ run < MaxRuns
    /\ run' = run + 1
    /\ md_files' \in Perms(ScanSet(fs))
    /\ total' = Len(md_files')
    /\ success' = 0
    /\ fail' = 0
    /\ idx' = 0
    /\ exc' = "none"
    /\ attempted' = <<>>
    /\ done_before' = done_before \cup done_now
    /\ done_now' = {}
    /\ failed_before' = failed_now
    /\ failed_now' = {}
    /\ pc' = "loop"
    /\ UNCHANGED <<cfgVars, docs, fs, dst, written, procVars>>

\* DST_DIR.mkdir or the scan raises: outside the try, main() ends there
MainStartRaise ==
    /\ pc \in {"idle", "done", "aborted"}
    /\ run < MaxRuns
    /\ run' = run + 1
    /\ md_files' = <<>>
    /\ total' = 0
    /\ success' = 0
    /\ fail' = 0
    /\ idx' = 0
    /\ exc' = "none"
    /\ attempted' = <<>>
    /\ pc' = "aborted"
    /\ UNCHANGED <<cfgVars, docs, fs, dst, written, procVars>>
    /\ UNCHANGED <<done_now, done_before, failed_now, failed_before>>

\* line 187: the next document, process_one entered
LoopNext ==
    /\ pc = "loop"
    /\ idx < Len(md_files)
    /\ idx' = idx + 1
    /\ attempted' = Append(attempted, md_files[idx + 1])
    /\ exc' = "none"
    /\ pc' = "p_open"
    /\ UNCHANGED <<cfgVars, docs, fs, dst, written, run, md_files, total, success, fail>>
    /\ UNCHANGED <<procVars, done_now, done_before, failed_now, failed_before>>

\* line 202: the loop is over, the tally is printed
LoopEnd ==
    /\ pc = "loop"
    /\ idx = Len(md_files)
    /\ pc' = "done"
    /\ UNCHANGED <<cfgVars, mainVars, procVars, histVars>>

\* line 202: the print of the tally raises and main() ends with it
LoopEndPrintError ==
    /\ pc = "loop"
    /\ idx = Len(md_files)
    /\ pc' = "aborted"
    /\ exc' \in PrintErrors
    /\ UNCHANGED <<cfgVars, mainVars, procVars>>
    /\ UNCHANGED <<attempted, done_now, done_before, failed_now, failed_before>>

\* src_path.read_text(encoding="utf-8"): text mode with universal newlines,
\* "\r\n" and "\r" are read as "\n"
RECURSIVE ReadText(_)
ReadText(data) ==
    IF data = <<>> THEN <<>>
    ELSE IF Head(data) = CR /\ Len(data) > 1 /\ data[2] = NL
         THEN <<NL>> \o ReadText(Tail(Tail(data)))
    ELSE IF Head(data) = CR THEN <<NL>> \o ReadText(Tail(data))
    ELSE <<Head(data)>> \o ReadText(Tail(data))

\* lines 108-112: mkdir, read_text, split_front_matter
ProcOpen ==
    /\ pc = "p_open"
    /\ \E r \in {SplitFrontMatter(ReadText(docs[Md.base]))} :
        /\ ~r.raised
        /\ front' = r.front
        /\ body' = r.body
    /\ pc' = "p_title"
    /\ UNCHANGED <<cfgVars, mainVars, histVars>>
    /\ UNCHANGED <<segs, translated_segs, cn_body, lvl1, summary, raw_resp, req, log>>

\* mkdir or read_text raises: the file system, or bytes that are no UTF-8
ProcOpenOSError ==
    /\ pc = "p_open"
    /\ \E kind \in {"OSError", "UnicodeDecodeError"} : Raise(kind, TRUE)
    /\ RaiseFrame

\* yaml.safe_load raises inside split_front_matter
ProcOpenYamlError ==
    /\ pc = "p_open"
    /\ SplitFrontMatter(ReadText(docs[Md.base])).raised
    /\ Raise("YAMLError", TRUE)
    /\ RaiseFrame

LLMSites ==
    {"p_title", "p_translate", "p_lvl1", "p_summary", "p_keywords", "p_description"}

\* the chunk the k-th translation request is for, in reverse order
ChunkAtReversed(k) == segs[Len(segs) + 1 - k]

\* the chunk the k-th translation request is for (line 140: for seg in segs)
ChunkAt(k) == segs[k]

\* the request ask_llm sends from the call site the program is at
Prompt ==
    CASE pc = "p_title" ->
            [kind |-> "title", text |-> front.m["title"], temp |-> "1.3"]
      [] pc = "p_translate" ->
            [kind |-> "translate", text |-> ChunkAt(Len(translated_segs) + 1),
             temp |-> "1.3"]
      [] pc = "p_lvl1" ->
            [kind |-> "lvl1", text |-> translated_segs[Len(lvl1) + 1], temp |-> "1.0"]
      [] pc = "p_summary" ->
            [kind |-> "summary", text |-> JoinNL(lvl1), temp |-> "1.0"]
      [] pc = "p_keywords" ->
            [kind |-> "keywords", text |-> summary \o JoinNL(lvl1), temp |-> "1.0"]
      [] pc = "p_description" ->
            [kind |-> "description", text |-> summary, temp |-> "1.0"]

\* ask_llm, lines 53-58: the request goes out and the caller waits
LLMCall ==
    /\ pc \in LLMSites
    /\ req = NoReq
    /\ pc = "p_title" => HasKey(front, "title")
    /\ req' = Prompt
    /\ log' = Append(log, [ev |-> "call", kind |-> Prompt.kind, text |-> Prompt.text])
    /\ UNCHANGED <<cfgVars, pc, mainVars, histVars>>
    /\ UNCHANGED <<front, body, segs, translated_segs, cn_body, lvl1, summary, raw_resp>>

\* what line 59 raises on an answer it cannot take apart: no list of
\* choices, an empty list of choices, a choice without content
AnswerErrors == {"TypeError", "IndexError", "AttributeError"}

\* the request fails, or the answer has no content to strip: the exception
\* leaves ask_llm and process_one
LLMRaise ==
    /\ req # NoReq
    /\ \E kind \in {"APIError"} \cup AnswerErrors : Raise(kind, TRUE)
    /\ RaiseFrame

Returned(kind, ans) == Append(log, [ev |-> "ret", kind |-> kind, text |-> ans])

\* line 116: no title to translate
TitleSkip ==
    /\ pc = "p_title"
    /\ ~HasKey(front, "title")
    /\ pc' = "p_split"
    /\ UNCHANGED <<cfgVars, mainVars, procVars, histVars>>

\* line 117: the translated title
TitleReturn ==
    /\ pc = "p_title"
    /\ req # NoReq
    /\ \E r \in Responses("title") :
        /\ front' = Dict(("title" :> Strip(r)) @@ front.m)
        /\ log' = Returned("title", Strip(r))
    /\ req' = NoReq
    /\ pc' = "p_split"
    /\ UNCHANGED <<cfgVars, mainVars, histVars>>
    /\ UNCHANGED <<body, segs, translated_segs, cn_body, lvl1, summary, raw_resp>>

\* lines 120-137: the date step, then segs = _split_markdown(body)
SplitStep ==
    /\ pc = "p_split"
    /\ ~SplitMarkdown(body).raised
    /\ front' = DateStep(front)
    /\ segs' = SplitMarkdown(body).out
    /\ pc' = IF segs' = <<>> THEN "p_summary" ELSE "p_translate"
    /\ UNCHANGED <<cfgVars, mainVars, histVars>>
    /\ UNCHANGED <<body, translated_segs, cn_body, lvl1, summary, raw_resp, req, log>>

\* range() raises in _split_markdown
SplitStepRaise ==
    /\ pc = "p_split"
    /\ SplitMarkdown(body).raised
    /\ Raise("ValueError", TRUE)
    /\ RaiseFrame

\* the translations gathered with the new piece put first
GatherFirst(pieces, piece) == <<piece>> \o pieces

\* the list comprehension gathers the answers in call order
Gather(pieces, piece) == Append(pieces, piece)

\* lines 138-142: one translated chunk; after the last, the body is joined
TranslateReturn ==
    /\ pc = "p_translate"
    /\ req # NoReq
    /\ \E r \in Responses("translate") :
        /\ translated_segs' = Gather(translated_segs, Strip(r))
        /\ log' = Returned("translate", Strip(r))
    /\ req' = NoReq
    /\ IF Len(translated_segs') = Len(segs)
       THEN pc' = "p_lvl1" /\ cn_body' = Join(translated_segs')
       ELSE pc' = pc /\ cn_body' = cn_body
    /\ UNCHANGED <<cfgVars, mainVars, histVars>>
    /\ UNCHANGED <<front, body, segs, lvl1, summary, raw_resp>>

\* lines 145-148: one level-1 summary
Lvl1Return ==
    /\ pc = "p_lvl1"
    /\ req # NoReq
    /\ \E r \in Responses("lvl1") :
        /\ lvl1' = Append(lvl1, Strip(r))
        /\ log' = Returned("lvl1", Strip(r))
    /\ req' = NoReq
    /\ pc' = IF Len(lvl1') = Len(translated_segs) THEN "p_summary" ELSE pc
    /\ UNCHANGED <<cfgVars, mainVars, histVars>>
    /\ UNCHANGED <<front, body, segs, translated_segs, cn_body, summary, raw_resp>>

\* lines 149-152: the final summary
SummaryReturn ==
    /\ pc = "p_summary"
    /\ req # NoReq
    /\ \E r \in Responses("summary") :
        /\ summary' = Strip(r)
        /\ log' = Returned("summary", Strip(r))
    /\ req' = NoReq
    /\ pc' = "p_keywords"
    /\ UNCHANGED <<cfgVars, mainVars, histVars>>
    /\ UNCHANGED <<front, body, segs, translated_segs, cn_body, lvl1, raw_resp>>

\* item assignment on a front matter that is no mapping raises TypeError
TagsAssignRaises(f, ans) == ~f.isdict /\ ExtractTags(ans) # <<>>

\* lines 155-161: the tag answer, split and stored
KeywordsReturn ==
    /\ pc = "p_keywords"
    /\ req # NoReq
    /\ \E r \in Responses("keywords") :
        /\ ~TagsAssignRaises(front, Strip(r))
        /\ raw_resp' = r
        /\ front' = IF front.isdict THEN SetTags(front, Strip(r)) ELSE front
        /\ log' = Returned("keywords", Strip(r))
    /\ req' = NoReq
    /\ pc' = "p_description"
    /\ UNCHANGED <<cfgVars, mainVars, histVars>>
    /\ UNCHANGED <<body, segs, translated_segs, cn_body, lvl1, summary>>

KeywordsTypeError ==
    /\ pc = "p_keywords"
    /\ req # NoReq
    /\ \E r \in Responses("keywords") : TagsAssignRaises(front, Strip(r))
    /\ Raise("TypeError", TRUE)
    /\ RaiseFrame

\* lines 164-168: the description
DescriptionReturn ==
    /\ pc = "p_description"
    /\ req # NoReq
    /\ front.isdict
    /\ \E r \in Responses("description") :
        /\ front' = Dict(("description" :> Strip(r)) @@ front.m)
        /\ log' = Returned("description", Strip(r))
    /\ req' = NoReq
    /\ pc' = "p_write"
    /\ UNCHANGED <<cfgVars, mainVars, histVars>>
    /\ UNCHANGED <<body, segs, translated_segs, cn_body, lvl1, summary, raw_resp>>

DescriptionTypeError ==
    /\ pc = "p_description"
    /\ req # NoReq
    /\ ~front.isdict
    /\ Raise("TypeError", TRUE)
    /\ RaiseFrame

\* lines 171-176 and 190: the output is written and reported, process_one
\* returns and main counts a success
Write ==
    /\ pc = "p_write"
    /\ dst' = dst \cup {Md}
    /\ written' = Compose(front, summary, cn_body)
    /\ success' = success + 1
    /\ pc' = "p_rename"
    /\ ProcReset
    /\ UNCHANGED <<cfgVars, docs, fs, run, md_files, idx, total, fail, histVars>>

\* line 172: write_text raises. It opens the file, which creates or empties
\* it, and then writes: when the open fails nothing is left under DST_DIR,
\* when the write fails the path is there with whatever got through
WriteOSError ==
    /\ pc = "p_write"
    /\ dst' \in {dst, dst \cup {Md}}
    /\ Raise("OSError", TRUE)
    /\ UNCHANGED <<cfgVars, docs, fs, run, md_files, idx, total, success>>
    /\ UNCHANGED <<attempted, done_now, done_before, failed_before>>

\* lines 172-176: the output is written, then the print of line 176 raises
\* inside process_one
WritePrintError ==
    /\ pc = "p_write"
    /\ dst' = dst \cup {Md}
    /\ \E kind \in PrintErrors : Raise(kind, TRUE)
    /\ UNCHANGED <<cfgVars, docs, fs, run, md_files, idx, total, success>>
    /\ UNCHANGED <<attempted, done_now, done_before, failed_before>>

\* lines 192-195: an older marked file is unlinked, the source is renamed
Rename ==
    /\ pc = "p_rename"
    /\ fs' = (fs \ {Md}) \cup {DsPath(Md)}
    /\ done_now' = done_now \cup {Md, DsPath(Md)}
    /\ written' = NoText
    /\ pc' = "loop"
    /\ UNCHANGED <<cfgVars, docs, dst, run, md_files, idx, total, success, fail>>
    /\ UNCHANGED <<procVars, exc, attempted, done_before, failed_now, failed_before>>

\* ds_path.unlink() raises
UnlinkOSError ==
    /\ pc = "p_rename"
    /\ DsPath(Md) \in fs
    /\ Raise("OSError", FALSE)
    /\ RaiseFrame

\* md.rename() raises, after the unlink if there was one
RenameOSError ==
    /\ pc = "p_rename"
    /\ fs' = fs \ {DsPath(Md)}
    /\ Raise("OSError", FALSE)
    /\ UNCHANGED <<cfgVars, docs, dst, run, md_files, idx, total, success>>
    /\ UNCHANGED <<attempted, done_now, done_before, failed_before>>

Next ==
    \/ MainStart
    \/ MainStartRaise
    \/ LoopNext
    \/ LoopEnd
    \/ LoopEndPrintError
    \/ ProcOpen
    \/ ProcOpenOSError
    \/ ProcOpenYamlError
    \/ LLMCall
    \/ LLMRaise
    \/ TitleSkip
    \/ TitleReturn
    \/ SplitStep
    \/ SplitStepRaise
    \/ TranslateReturn
    \/ Lvl1Return
    \/ SummaryReturn
    \/ KeywordsReturn
    \/ KeywordsTypeError
    \/ DescriptionReturn
    \/ DescriptionTypeError
    \/ Write
    \/ WriteOSError
    \/ WritePrintError
    \/ Rename
    \/ UnlinkOSError
    \/ RenameOSError

Spec == Init /\ [][Next]_vars

-----------------------------------------------------------------------------
(* Properties of the segmenter *)

SplitEnded == pc \in {"split_done", "split_raised"}

\* the text seen as the units the slicing loop counts: tokens or characters
Units(txt) == IF enc THEN Encode(txt) ELSE txt

\* the lines of all chunks, in order
RECURSIVE LinesOfAll(_)
LinesOfAll(chunks) ==
    IF chunks = <<>> THEN <<>>
    ELSE SplitLines(Head(chunks)) \o LinesOfAll(Tail(chunks))

\* C3: every chunk _split_markdown emits has an estimated token length
\* (_token_len) of at most CHUNK_TOKENS, with either tokenizer mode.
C3_ChunkWithinBudget ==
    (pc = "split_done" /\ Stride > 0) =>
        \A k \in 1..Len(segs) : TokenLen(segs[k]) <= CHUNK_TOKENS

\* C4: in every over-budget section, two consecutive windows, the pair
\* ending in the final window excepted, share exactly CHUNK_OVERLAP units:
\* the tail of the earlier window is the head of the later one.
C4_WindowsOverlap ==
    (pc = "split_done" /\ Stride > 0) =>
        \A s \in 1..Len(Sections(body)) :
            LET seg == Sections(body)[s]
                w == Windows(seg)
            IN OverBudget(seg) =>
                \A i \in 1..(Len(w) - 2) :
                    LET a == Units(w[i])
                        b == Units(w[i + 1])
                    IN /\ Len(a) >= CHUNK_OVERLAP
                       /\ Len(b) >= CHUNK_OVERLAP
                       /\ SubSeq(a, Len(a) - CHUNK_OVERLAP + 1, Len(a))
                            = SubSeq(b, 1, CHUNK_OVERLAP)

\* C5: _split_markdown never runs on an over-budget section with a stride
\* CHUNK_TOKENS - CHUNK_OVERLAP that is zero or negative: such a
\* configuration is rejected before segmentation.
C5_StrideGuarded ==
    SplitEnded =>
        \A s \in 1..Len(Sections(body)) :
            OverBudget(Sections(body)[s]) => Stride > 0

\* C6: for a body whose estimated token length is within the budget the
\* chunks are the sections: they are non-empty, made of whole lines of the
\* body in order, a heading line is the first line of its chunk and every
\* chunk but the first starts with one, and their concatenation is the body.
C6_WithinBudgetSections ==
    (SplitEnded /\ TokenLen(body) <= CHUNK_TOKENS) =>
        /\ pc = "split_done"
        /\ Join(segs) = body
        /\ LinesOfAll(segs) = SplitLines(body)
        /\ \A k \in 1..Len(segs) :
            /\ segs[k] # <<>>
            /\ k > 1 => HdrMatch(SplitLines(segs[k])[1])
            /\ \A j \in 2..Len(SplitLines(segs[k])) :
                    ~HdrMatch(SplitLines(segs[k])[j])

\* a tight budget met by a body of two sections
C6_Witness ==
    /\ pc = "split_done"
    /\ CHUNK_TOKENS = 3
    /\ TokenLen(body) <= CHUNK_TOKENS
    /\ Len(segs) = 2

-----------------------------------------------------------------------------
(* Properties of the tag step *)

Min(S) == CHOOSE x \in S : \A y \in S : x <= y
Max(S) == CHOOSE x \in S : \A y \in S : x >= y

\* the positions where a maximal run of non-delimiters starts
RunStarts(resp) ==
    { i \in 1..Len(resp) :
        resp[i] \notin Delims /\ (i = 1 \/ resp[i - 1] \in Delims) }

RunEnd(resp, i) ==
    Max({ j \in i..Len(resp) : \A m \in i..j : resp[m] \notin Delims })

\* the run from i with the whitespace at its two ends removed
Trimmed(resp, i) ==
    LET solid == { m \in i..RunEnd(resp, i) : ~IsSpace(resp[m]) }
    IN IF solid = {} THEN <<>> ELSE SubSeq(resp, Min(solid), Max(solid))

RECURSIVE RunsInOrder(_, _)
RunsInOrder(resp, starts) ==
    IF starts = {} THEN <<>>
    ELSE (IF Trimmed(resp, Min(starts)) = <<>> THEN <<>>
          ELSE <<Trimmed(resp, Min(starts))>>)
         \o RunsInOrder(resp, starts \ {Min(starts)})

\* the response split on the delimiter set, each token trimmed, the empty
\* tokens discarded
TagSpec(resp) == RunsInOrder(resp, RunStarts(resp))

TagStepTaken == pc = "tags_call" /\ pc' = "tags_done"

\* C8 (as stated): after the tag step frontMatter.tags is, for every
\* response, the split, trimmed and filtered token sequence, which replaces
\* any earlier tags value and holds no empty entry.
C8_TagsAlwaysReplaced ==
    [][TagStepTaken =>
        /\ "tags" \in DOMAIN front'.m
        /\ front'.m["tags"] = TagSpec(raw_resp)
        /\ \A k \in 1..Len(front'.m["tags"]) : front'.m["tags"][k] # <<>>]_vars

\* C8 (amended): when the response yields at least one token,
\* frontMatter.tags is that token sequence, replacing any earlier value,
\* with no empty entry, and the other keys are untouched; when it yields
\* none, the front matter is left exactly as it was.
C8_TagsReplacedWhenAny ==
    [][TagStepTaken =>
        IF TagSpec(raw_resp) # <<>>
        THEN /\ DOMAIN front'.m = DOMAIN front.m \cup {"tags"}
             /\ front'.m["tags"] = TagSpec(raw_resp)
             /\ \A k \in 1..Len(front'.m["tags"]) : front'.m["tags"][k] # <<>>
             /\ \A key \in DOMAIN front.m \ {"tags"} : front'.m[key] = front.m[key]
        ELSE front' = front]_vars

\* two tags taken from an answer that uses a fullwidth comma and a blank
C8_Witness ==
    /\ pc = "tags_done"
    /\ \E i \in 1..Len(raw_resp) : raw_resp[i] = FWCOMMA
    /\ \E i \in 1..Len(raw_resp) : raw_resp[i] = SP
    /\ "tags" \in DOMAIN front.m
    /\ front.m["tags"] = << <<"a">>, <<"a">> >>
    /\ "title" \in DOMAIN front.m

-----------------------------------------------------------------------------
(* Properties of main() and process_one *)

Range(q) == { q[i] : i \in 1..Len(q) }

InRun == pc \notin {"idle", "aborted"}

\* the run is over: main() has returned from its tally or was left by an
\* exception after its scan
RunOver == pc = "done" \/ (pc = "aborted" /\ md_files # <<>>)

\* C1: a document processed and renamed in one run is in no later scan list
\* and is not processed again; a document that failed inside process_one
\* keeps its unmarked name, is in the scan list of the next run, and that
\* run has processed it again from the start by the time it is over.
C1_MarkedSkippedFailedRetried ==
    /\ InRun => Range(md_files) \cap done_before = {}
    /\ Range(attempted) \cap done_before = {}
    /\ failed_now \subseteq fs
    /\ \A p \in failed_now : ~StartsWithDs(p)
    /\ InRun => failed_before \subseteq Range(md_files)
    /\ RunOver => failed_before \subseteq Range(attempted)

\* the run is under way: started, and neither over nor aborted
Running == pc \notin {"idle", "done", "aborted"}

PhaseRank ==
    CASE pc = "p_open" -> 1
      [] pc = "p_title" -> 2
      [] pc = "p_split" -> 3
      [] pc = "p_translate" -> 4
      [] pc = "p_lvl1" -> 5
      [] pc = "p_summary" -> 6
      [] pc = "p_keywords" -> 7
      [] pc = "p_description" -> 8
      [] pc = "p_write" -> 9
      [] pc = "p_rename" -> 10
      [] pc = "loop" -> 11
      [] OTHER -> 12

\* how far the run has come: documents, then the phase of process_one, then
\* the answers gathered and the request waiting
Position ==
    idx * 10000 + PhaseRank * 100
        + 2 * (Len(translated_segs) + Len(lvl1))
        + (IF req = NoReq THEN 0 ELSE 1)

\* the program has a step to take that is no failure of the file system or
\* of the generation service
CanGoOn ==
    CASE pc = "loop" -> idx <= Len(md_files)
      [] pc = "p_translate" -> req # NoReq \/ Len(translated_segs) < Len(segs)
      [] pc = "p_lvl1" -> req # NoReq \/ Len(lvl1) < Len(translated_segs)
      [] pc = "p_rename" -> Md \in fs
      [] OTHER -> idx \in 1..Len(md_files)

C2_Safe ==
    /\ pc = "aborted" => md_files = <<>>
    /\ InRun => attempted = SubSeq(md_files, 1, idx)
    /\ pc = "done" => attempted = md_files
    /\ Running => CanGoOn

\* C2: no failure while a document is handled ends the run: the documents
\* of the scan list are attempted once each, in list order, whatever became
\* of the earlier ones, and the run arrives at its tally. Every step of a
\* run moves it forward, a run under way can always take a step, and it is
\* left only at the tally.
C2_RunNeverAborts ==
    /\ []C2_Safe
    /\ [][Running => /\ Position' > Position
                      /\ pc' # "aborted"
                      /\ md_files' = md_files]_vars

\* C7: a front-matter block that does not parse never ends the document:
\* the parser's exception does not reach the handler of main().
C7_MalformedDegrades == exc # "YAMLError"

TranslateDone == pc \in {"p_lvl1", "p_summary", "p_keywords", "p_description", "p_write"}

IsTranslateCall(e) == e.ev = "call" /\ e.kind = "translate"
IsTranslateRet(e) == e.ev = "ret" /\ e.kind = "translate"

RECURSIVE JoinTexts(_)
JoinTexts(events) ==
    IF events = <<>> THEN <<>> ELSE Head(events).text \o JoinTexts(Tail(events))

\* C9: one translation request per chunk, sent in chunk order, none sent
\* while another request waits for its answer; the i-th piece of the
\* translated body is the answer to the i-th chunk, nothing in between.
C9_TranslationInOrder ==
    LET calls == SelectSeq(log, IsTranslateCall)
        rets == SelectSeq(log, IsTranslateRet)
    IN /\ Len(calls) <= Len(segs)
       /\ \A i \in 1..Len(calls) : calls[i].text = segs[i]
       /\ Len(rets) = Len(translated_segs)
       /\ \A i \in 1..Len(rets) : translated_segs[i] = rets[i].text
       /\ \A i \in 1..(Len(log) - 1) :
            log[i].ev = "call" => log[i + 1].ev = "ret" /\ log[i + 1].kind = log[i].kind
       /\ TranslateDone =>
            /\ Len(calls) = Len(segs)
            /\ Len(rets) = Len(segs)
            /\ cn_body = JoinTexts(rets)

\* three chunks translated, the answers not all the same
C9_Witness ==
    /\ pc = "p_lvl1"
    /\ Len(segs) = 3
    /\ translated_segs[1] # translated_segs[2]
    /\ cn_body = translated_segs[1] \o translated_segs[2] \o translated_segs[3]

\* C10: when a run ends every document of the scan list has been counted
\* once, as succeeded or as failed; the failed ones are still unmarked and
\* the succeeded ones carry the "[ds]" prefix.
C10_TallyConsistent ==
    pc = "done" =>
        /\ success + fail = total
        /\ fail = Cardinality({ p \in Range(md_files) : p \in fs })
        /\ success = Cardinality({ p \in Range(md_files) : p \notin fs /\ DsPath(p) \in fs })

====
